---- MODULE Spec2Model ----
(***************************************************************************)
(* Model of build_run.py: BuildRun.main sequences a Docker image build,    *)
(* the reconciliation of existing containers and the start of a new one    *)
(* followed by a liveness poll, and the tag and push of the image.  The    *)
(* Docker daemon is modelled as a fake that keeps the containers, answers  *)
(* the requests and records every request in `ops`.                       *)
(*                                                                         *)
(* Strings are sequences of tokens.  The user name is kept character by    *)
(* character because it is interpolated unescaped into the regular         *)
(* expression of the name filter ('^<name>$'); '.' matches any character.  *)
(***************************************************************************)
EXTENDS Integers, Sequences, FiniteSets, TLC

\* ------------------------------------------------------------------ bounds
\* containers the daemon knows before the invocation
MaxContainers == 2
\* events in the build log stream
MaxLog == 2
\* largest configured wait window
MaxWait == 1

\* --------------------------------------------------------------- constants
BUILD_FAILED == 101
TAG_FAILED == 102
PUSH_FAILED == 103

\* verbose is only compared with 1 and 2: 2 stands for "2 or more"
VerbosityLevels == {0, 1, 2}

\* creation timestamps of the containers that exist before the invocation:
\* 1 is the timestamp the historical names carry, 2 is another one; Now is
\* the creation timestamp of the container the invocation starts
Timestamps == {1, 2}
Now == 3

\* -u values: a plain name and one with a regular-expression metacharacter
Users == {<<"a", "b", "c">>, <<"a", ".", "c">>}
env == "dev"
repo_name == "benjilev08"

\* ----------------------------------------------------------------- strings
\* str.replace(old, new) on a token string
Replace(s, old, new) == [i \in 1..Len(s) |-> IF s[i] = old THEN new ELSE s[i]]

\* str(datetime.fromtimestamp(created)): 'YYYY-MM-DD HH:MM:SS'
DateTimeStr(created) == <<"1970-01-01", " ", "00", ":", "00", ":", ToString(created)>>

\* name = f'{user}_{env}'
Name(user) == user \o <<"_", env>>

\* f'{name}_{datetime.fromtimestamp(container["Created"])}'.replace(' ', '_').replace(':', '_')
RenameCandidate(name, created) ==
    Replace(Replace(name \o <<"_">> \o DateTimeStr(created), " ", "_"), ":", "_")

\* f'{name}_{datetime.fromtimestamp(container["Created"])}_{count}'.replace(' ', '_').replace(':', '_')
RenameCandidateN(name, created, count) ==
    Replace(Replace(name \o <<"_">> \o DateTimeStr(created) \o <<"_", ToString(count)>>,
                    " ", "_"), ":", "_")

\* the filter value f'^{name}$'
NameFilter(name) == <<"^">> \o name \o <<"$">>

\* the daemon matches the filter as a regular expression against the name:
\* anchored at both ends, '.' matches any one character, the rest literally
RegexMatch(pattern, s) ==
    /\ Len(pattern) = Len(s) + 2
    /\ pattern[1] = "^"
    /\ pattern[Len(pattern)] = "$"
    /\ \A i \in 1..Len(s) : pattern[i + 1] = "." \/ pattern[i + 1] = s[i]

\* container['State'].lower()
Lower(state) ==
    CASE state = "Running" -> "running"
      [] state = "Exited" -> "exited"
      [] OTHER -> state

\* ------------------------------------------------------------------- state
VARIABLES
    pc,              \* position in BuildRun.main / main
    user, verbose, build, run, push,   \* command-line options
    wait,            \* remaining wait window (the code counts the option down)
    wait0,           \* the configured wait window
    containers,      \* daemon: id -> [Name, State, Created]
    image,           \* build log stream: the number of events left in it
    log,             \* what the build log stream contains
    build_success,
    all_containers,  \* listing of line 74 not yet iterated
    listed,          \* ids returned by the listing of line 74
    container,       \* loop variable of line 83
    rename, count,
    run_success,
    started,         \* id of the container started at line 102, 0 if none
    exc,             \* exception in flight or that ended the invocation
    ops,             \* requests sent to the daemon, in order
    stdout           \* lines printed that report an outcome

vars == <<pc, user, verbose, build, run, push, wait, wait0, containers, image, log,
          build_success, all_containers, listed, container, rename, count,
          run_success, started, exc, ops, stdout>>

options == <<user, verbose, build, run, push, wait0>>
buildVars == <<image, log, build_success>>
loopVars == <<all_containers, listed, container, rename, count>>

NoContainer == [Id |-> 0, State |-> "", Created |-> 0]
NoLog == [marker |-> FALSE, error |-> FALSE]
NoException == [kind |-> "none", code |-> 0, message |-> <<>>]

\* one request to the daemon: ok is FALSE when the daemon answered with an
\* error, n is the number of containers a listing returned
Op(op, id, nm, ok, n) == [op |-> op, id |-> id, name |-> nm, ok |-> ok, n |-> n]

\* one printed line
Line(tag, code, text) == [tag |-> tag, code |-> code, text |-> text]

\* f'{repo_name}/{user}:{env}'
Target(u) == <<repo_name, "/">> \o u \o <<":", env>>

\* ------------------------------------------------------------------ daemon
Ids == DOMAIN containers

\* api_client.containers(all=True, filters={'name': pattern})
ListAll(pattern) == {id \in Ids : RegexMatch(pattern, containers[id].Name)}

\* api_client.containers(filters={'name': pattern}): running containers only
ListRunning(pattern) ==
    {id \in Ids : RegexMatch(pattern, containers[id].Name) /\ containers[id].State = "running"}

NameTaken(nm) == \E id \in Ids : containers[id].Name = nm

\* the records of a listing, as the daemon returns them
Records(ids) == {[Id |-> id, State |-> containers[id].State, Created |-> containers[id].Created] : id \in ids}

\* the orders in which the daemon may return a listing
Orders(S) == {s \in [1..Cardinality(S) -> S] : \A i, j \in 1..Cardinality(S) : s[i] = s[j] => i = j}

\* --------------------------------------------------------- initial states
\* a name that is not the user's but that the user's name filter matches
Sibling(u) == [i \in 1..Len(u) |-> IF u[i] = "." THEN "b" ELSE u[i]]
Stranger == <<"w", "e", "b">>

\* names that may exist before the invocation for user u: the canonical
\* name, the historical names two earlier invocations left for a container
\* created at timestamp 1, the same for the sibling, and a stranger
NamePool(u) ==
    {Name(u), RenameCandidate(Name(u), 1), RenameCandidateN(Name(u), 1, 1)}
    \cup {Name(Sibling(u)), RenameCandidate(Name(Sibling(u)), 1)}
    \cup {Stranger}

\* a historical container was stopped when it was renamed and its name
\* carries its creation timestamp; the stranger is a running container
InitialRecords(nm) ==
    IF nm \in {Name(u) : u \in Users}
    THEN {[Name |-> nm, State |-> st, Created |-> c] : st \in {"running", "exited"}, c \in Timestamps}
    ELSE IF nm = Stranger
    THEN {[Name |-> nm, State |-> "running", Created |-> 1]}
    ELSE {[Name |-> nm, State |-> "exited", Created |-> 1]}

\* the daemon keeps container names unique: one container per name of S,
\* numbered in one fixed order
Enum(S) == CHOOSE s \in Orders(S) : TRUE
InitialContainers(u) ==
    UNION {
        {[i \in 1..Cardinality(S) |-> r[Enum(S)[i]]] :
            r \in {q \in [S -> UNION {InitialRecords(nm) : nm \in S}] :
                      \A nm \in S : q[nm] \in InitialRecords(nm)}}
        : S \in {T \in SUBSET NamePool(u) : Cardinality(T) <= MaxContainers}}

Init ==
    /\ pc = "start"
    /\ user \in Users
    /\ verbose \in VerbosityLevels
    /\ build \in BOOLEAN
    /\ run \in BOOLEAN
    /\ push \in BOOLEAN
    /\ wait0 \in 0..MaxWait
    /\ wait = wait0
    /\ containers \in InitialContainers(user)
    /\ image = 0
    /\ log = NoLog
    /\ build_success = FALSE
    /\ all_containers = <<>>
    /\ listed = {}
    /\ container = NoContainer
    /\ rename = <<>>
    /\ count = 0
    /\ run_success = FALSE
    /\ started = 0
    /\ exc = NoException
    /\ ops = <<>>
    /\ stdout = <<>>

\* ------------------------------------------------------------- exceptions
BuildRunError(code, message) == [kind |-> "BuildRunError", code |-> code, message |-> message]
APIError(op) == [kind |-> "APIError", code |-> 0, message |-> <<op>>]
OtherError(op) == [kind |-> "Other", code |-> 0, message |-> <<op>>]

\* mutant: main catches every exception
Landing_CatchAll(e) == "caught"

\* lines 157-159: where an exception raised in b.main lands: the except
\* clause of main for a BuildRunError, out of main for any other
Landing(e) == IF e.kind = "BuildRunError" THEN "caught" ELSE "crashed"

\* -------------------------------------------------------------- build step
\* events of the build log stream: a 'stream' text with the success marker,
\* a 'stream' text without it, and an event that reports an error
\* ('errorDetail', no 'stream' key)
Events == {"marker", "text", "error"}
HasStream(ev) == ev \in {"marker", "text"}
HasMarker(ev) == ev = "marker"

\* what the stream contains once the event ev is added to it
Logged(l, ev) ==
    [marker |-> l.marker \/ (HasStream(ev) /\ HasMarker(ev)), error |-> l.error \/ ev = "error"]

\* mutant: any 'stream' text counts as success
MarkSuccess_AnyStream(success, ev) == success \/ HasStream(ev)

\* lines 52-54: build_success after the event ev
MarkSuccess(success, ev) == success \/ (HasStream(ev) /\ HasMarker(ev))

\* line 49: the log is read only when verbose >= 1
ReadsLog(v) == v >= 1

\* lines 28-48: build on, the daemon accepts the request and returns the
\* stream, a generator of up to MaxLog events.  The events of a stream that
\* is read are drawn as they are read; of a stream that is never read only
\* the content is drawn.
BuildRequest ==
    /\ pc = "start"
    /\ build
    /\ image' \in 0..MaxLog
    /\ IF ReadsLog(verbose)
       THEN log' = NoLog
       ELSE \E m, e \in BOOLEAN : log' = [marker |-> m, error |-> e]
    /\ build_success' = FALSE
    /\ ops' = Append(ops, Op("build", 0, <<>>, TRUE, 0))
    /\ pc' = IF ReadsLog(verbose) THEN "build_read" ELSE "build_check"
    /\ UNCHANGED <<options, wait, containers, loopVars, run_success, started, exc, stdout>>

\* line 28: build off
SkipBuild ==
    /\ pc = "start"
    /\ ~build
    /\ pc' = "run_step"
    /\ UNCHANGED <<options, wait, containers, buildVars, loopVars, run_success, started,
                   exc, ops, stdout>>

\* lines 51-55: the next event of the stream
BuildReadEvent ==
    /\ pc = "build_read"
    /\ image > 0
    /\ \E ev \in Events :
        /\ build_success' = MarkSuccess(build_success, ev)
        /\ log' = Logged(log, ev)
    /\ image' = image - 1
    /\ UNCHANGED <<pc, options, wait, containers, loopVars, run_success, started,
                   exc, ops, stdout>>

\* line 51: the stream has ended
BuildLogEnd ==
    /\ pc = "build_read"
    /\ image = 0
    /\ pc' = "build_check"
    /\ UNCHANGED <<options, wait, containers, buildVars, loopVars, run_success, started,
                   exc, ops, stdout>>

\* lines 57-58
BuildFailed ==
    /\ pc = "build_check"
    /\ ~build_success
    /\ exc' = BuildRunError(BUILD_FAILED, <<"Build Failed">>)
    /\ pc' = Landing(BuildRunError(BUILD_FAILED, <<"Build Failed">>))
    /\ UNCHANGED <<options, wait, containers, buildVars, loopVars, run_success, started,
                   ops, stdout>>

\* line 57: build_success is set
BuildOk ==
    /\ pc = "build_check"
    /\ build_success
    /\ pc' = "run_step"
    /\ UNCHANGED <<options, wait, containers, buildVars, loopVars, run_success, started,
                   exc, ops, stdout>>

\* ---------------------------------------------------------------- run step
\* mutant: the run step is skipped whatever the flag says
SkipRun_Always ==
    /\ pc = "run_step"
    /\ pc' = "push_step"
    /\ UNCHANGED <<options, wait, containers, buildVars, loopVars, run_success, started,
                   exc, ops, stdout>>

\* line 60: run off
SkipRun ==
    /\ pc = "run_step"
    /\ ~run
    /\ pc' = "push_step"
    /\ UNCHANGED <<options, wait, containers, buildVars, loopVars, run_success, started,
                   exc, ops, stdout>>

\* lines 60-79: the listing of the containers that match the canonical name
ListContainers ==
    /\ pc = "run_step"
    /\ run
    /\ \E s \in Orders(Records(ListAll(NameFilter(Name(user))))) : all_containers' = s
    /\ listed' = ListAll(NameFilter(Name(user)))
    /\ ops' = Append(ops, Op("list", 0, Name(user), TRUE, Cardinality(ListAll(NameFilter(Name(user))))))
    /\ pc' = "listed"
    /\ UNCHANGED <<options, wait, containers, buildVars, container, rename, count,
                   run_success, started, exc, stdout>>

\* lines 80-82
ContainersExist ==
    /\ pc = "listed"
    /\ all_containers # <<>>
    /\ pc' = "for"
    /\ UNCHANGED <<options, wait, containers, buildVars, loopVars, run_success, started,
                   exc, ops, stdout>>

\* lines 98-100
NoExistingContainers ==
    /\ pc = "listed"
    /\ all_containers = <<>>
    /\ pc' = "run_call"
    /\ UNCHANGED <<options, wait, containers, buildVars, loopVars, run_success, started,
                   exc, ops, stdout>>

\* lines 83-84: the next container of the listing
ForNext ==
    /\ pc = "for"
    /\ all_containers # <<>>
    /\ container' = Head(all_containers)
    /\ all_containers' = Tail(all_containers)
    /\ pc' = "stop_check"
    /\ UNCHANGED <<options, wait, containers, buildVars, listed, rename, count,
                   run_success, started, exc, ops, stdout>>

\* mutant: the loop is left after any iteration
ForEnd_Early ==
    /\ pc = "for"
    /\ pc' = "run_call"
    /\ UNCHANGED <<options, wait, containers, buildVars, loopVars, run_success, started,
                   exc, ops, stdout>>

\* line 83: the listing is exhausted
ForEnd ==
    /\ pc = "for"
    /\ all_containers = <<>>
    /\ pc' = "run_call"
    /\ UNCHANGED <<options, wait, containers, buildVars, loopVars, run_success, started,
                   exc, ops, stdout>>

\* mutant: the state test of line 85 dropped, every container is stopped
IsRunning_Always(c) == TRUE

\* line 85
IsRunning(c) == Lower(c.State) = "running"

\* lines 85-88: the daemon stops the container
StopRunning ==
    /\ pc = "stop_check"
    /\ IsRunning(container)
    /\ container.Id \in Ids
    /\ containers' = [containers EXCEPT ![container.Id].State = "exited"]
    /\ ops' = Append(ops, Op("stop", container.Id, <<>>, TRUE, 0))
    /\ pc' = "candidate"
    /\ UNCHANGED <<options, wait, buildVars, loopVars, run_success, started, exc, stdout>>

\* mutant: lines 89-97 indented under the if of line 85
SkipStop_SkipsRename ==
    /\ pc = "stop_check"
    /\ ~IsRunning(container)
    /\ pc' = "for"
    /\ UNCHANGED <<options, wait, containers, buildVars, loopVars, run_success, started,
                   exc, ops, stdout>>

\* line 85: not running
SkipStop ==
    /\ pc = "stop_check"
    /\ ~IsRunning(container)
    /\ pc' = "candidate"
    /\ UNCHANGED <<options, wait, containers, buildVars, loopVars, run_success, started,
                   exc, ops, stdout>>

\* lines 89-90
FirstCandidate ==
    /\ pc = "candidate"
    /\ rename' = RenameCandidate(Name(user), container.Created)
    /\ count' = 1
    /\ pc' = "while"
    /\ UNCHANGED <<options, wait, containers, buildVars, all_containers, listed, container,
                   run_success, started, exc, ops, stdout>>

\* mutant: the listing without all=True, as at line 113
CandidateTaken_RunningOnly(nm) == ListRunning(NameFilter(nm)) # {}

\* line 91: the loop condition, a listing filtered by the candidate
CandidateTaken(nm) == ListAll(NameFilter(nm)) # {}

\* mutant: line 92 does not replace the candidate
WhileTaken_SameCandidate ==
    /\ pc = "while"
    /\ CandidateTaken(rename)
    /\ ops' = Append(ops, Op("list", 0, rename, TRUE, Cardinality(ListAll(NameFilter(rename)))))
    /\ rename' = rename
    /\ count' = count + 1
    /\ UNCHANGED <<pc, options, wait, containers, buildVars, all_containers, listed,
                   container, run_success, started, exc, stdout>>

\* lines 91-93: the candidate is taken, try the next suffix
WhileTaken ==
    /\ pc = "while"
    /\ CandidateTaken(rename)
    /\ ops' = Append(ops, Op("list", 0, rename, TRUE, Cardinality(ListAll(NameFilter(rename)))))
    /\ rename' = RenameCandidateN(Name(user), container.Created, count)
    /\ count' = count + 1
    /\ UNCHANGED <<pc, options, wait, containers, buildVars, all_containers, listed,
                   container, run_success, started, exc, stdout>>

\* line 91: the candidate is free
WhileFree ==
    /\ pc = "while"
    /\ ~CandidateTaken(rename)
    /\ ops' = Append(ops, Op("list", 0, rename, TRUE, 0))
    /\ pc' = "rename"
    /\ UNCHANGED <<options, wait, containers, buildVars, loopVars, run_success, started,
                   exc, stdout>>

\* line 97: the daemon renames the container; it refuses a name in use
RenameContainer ==
    /\ pc = "rename"
    /\ container.Id \in Ids
    /\ IF NameTaken(rename)
       THEN /\ ops' = Append(ops, Op("rename", container.Id, rename, FALSE, 0))
            /\ exc' = APIError("rename")
            /\ pc' = Landing(APIError("rename"))
            /\ UNCHANGED containers
       ELSE /\ ops' = Append(ops, Op("rename", container.Id, rename, TRUE, 0))
            /\ containers' = [containers EXCEPT ![container.Id].Name = rename]
            /\ pc' = "for"
            /\ UNCHANGED exc
    /\ UNCHANGED <<options, wait, buildVars, loopVars, run_success, started, stdout>>

\* the id the daemon gives to a new container
FreshId == Cardinality(Ids) + 1

\* line 103: the liveness poll is inside the verbose >= 1 branch
PollsLiveness(v) == v >= 1

\* lines 102-111: the daemon creates and starts the container; it refuses a
\* name in use
RunContainer ==
    /\ pc = "run_call"
    /\ IF NameTaken(Name(user))
       THEN /\ ops' = Append(ops, Op("run", 0, Name(user), FALSE, 0))
            /\ exc' = APIError("run")
            /\ pc' = Landing(APIError("run"))
            /\ UNCHANGED <<containers, started, run_success>>
       ELSE /\ ops' = Append(ops, Op("run", FreshId, Name(user), TRUE, 0))
            /\ containers' = [i \in Ids \cup {FreshId} |->
                                IF i = FreshId
                                THEN [Name |-> Name(user), State |-> "running", Created |-> Now]
                                ELSE containers[i]]
            /\ started' = FreshId
            /\ run_success' = PollsLiveness(verbose)
            /\ pc' = IF PollsLiveness(verbose) THEN "poll" ELSE "push_step"
            /\ UNCHANGED exc
    /\ UNCHANGED <<options, wait, buildVars, loopVars, stdout>>

\* ------------------------------------------------------------ liveness poll
\* line 113: the check, a listing of the running containers with the name
StillListed == ListRunning(NameFilter(Name(user))) # {}

\* line 112: the loop condition
WindowOpen(w) == w >= 0

\* the process of the started container ends (an event of the environment)
ContainerExits ==
    /\ pc = "poll"
    /\ started \in Ids
    /\ containers[started].State = "running"
    /\ containers' = [containers EXCEPT ![started].State = "exited"]
    /\ UNCHANGED <<pc, options, wait, buildVars, loopVars, run_success, started, exc, ops,
                   stdout>>

\* lines 112-116: the container is listed
PollRunning ==
    /\ pc = "poll"
    /\ WindowOpen(wait)
    /\ StillListed
    /\ ops' = Append(ops, Op("list", 0, Name(user), TRUE, Cardinality(ListRunning(NameFilter(Name(user))))))
    /\ stdout' = Append(stdout, Line("Running", wait, <<>>))
    /\ wait' = wait - 1
    /\ UNCHANGED <<pc, options, containers, buildVars, loopVars, run_success, started, exc>>

\* mutant: no break at line 120
PollDied_NoBreak ==
    /\ pc = "poll"
    /\ WindowOpen(wait)
    /\ ~StillListed
    /\ ops' = Append(ops, Op("list", 0, Name(user), TRUE, 0))
    /\ stdout' = Append(stdout, Line("Died", wait, <<>>))
    /\ run_success' = FALSE
    /\ wait' = wait - 1
    /\ UNCHANGED <<pc, options, containers, buildVars, loopVars, started, exc>>

\* lines 112-120: the container is not listed
PollDied ==
    /\ pc = "poll"
    /\ WindowOpen(wait)
    /\ ~StillListed
    /\ ops' = Append(ops, Op("list", 0, Name(user), TRUE, 0))
    /\ stdout' = Append(stdout, Line("Died", wait, <<>>))
    /\ run_success' = FALSE
    /\ pc' = "poll_end"
    /\ UNCHANGED <<options, wait, containers, buildVars, loopVars, started, exc>>

\* line 112: the window has elapsed
PollWindowOver ==
    /\ pc = "poll"
    /\ ~WindowOpen(wait)
    /\ pc' = "poll_end"
    /\ UNCHANGED <<options, wait, containers, buildVars, loopVars, run_success, started,
                   exc, ops, stdout>>

\* mutant: main returns after a poll that ended died
PollEnd_ReturnsOnDied ==
    /\ pc = "poll_end"
    /\ stdout' = IF run_success THEN Append(stdout, Line("Success", 0, <<>>)) ELSE stdout
    /\ pc' = IF run_success THEN "push_step" ELSE "exit"
    /\ UNCHANGED <<options, wait, containers, buildVars, loopVars, run_success, started,
                   exc, ops>>

\* lines 121-122
PollEnd ==
    /\ pc = "poll_end"
    /\ stdout' = IF run_success THEN Append(stdout, Line("Success", 0, <<>>)) ELSE stdout
    /\ pc' = "push_step"
    /\ UNCHANGED <<options, wait, containers, buildVars, loopVars, run_success, started,
                   exc, ops>>

\* --------------------------------------------------------------- push step
\* line 124: push off, b.main returns
SkipPush ==
    /\ pc = "push_step"
    /\ ~push
    /\ pc' = "exit"
    /\ UNCHANGED <<options, wait, containers, buildVars, loopVars, run_success, started,
                   exc, ops, stdout>>

\* mutant: no raise at line 129
TagImage_NoRaise ==
    /\ pc = "push_step"
    /\ push
    /\ \E tagged \in BOOLEAN :
        /\ ops' = Append(ops, Op("tag", 0, Target(user), TRUE, IF tagged THEN 1 ELSE 0))
        /\ pc' = "push"
        /\ stdout' = IF tagged /\ verbose >= 1
                     THEN Append(stdout, Line("Tagged", 0, Target(user)))
                     ELSE stdout
    /\ UNCHANGED <<options, wait, containers, buildVars, loopVars, run_success, started, exc>>

\* lines 125-129: the daemon answers the tag request with true or false
TagImage ==
    /\ pc = "push_step"
    /\ push
    /\ \E tagged \in BOOLEAN :
        /\ ops' = Append(ops, Op("tag", 0, Target(user), TRUE, IF tagged THEN 1 ELSE 0))
        /\ IF tagged
           THEN /\ pc' = "push"
                /\ stdout' = IF verbose >= 1
                             THEN Append(stdout, Line("Tagged", 0, Target(user)))
                             ELSE stdout
                /\ UNCHANGED exc
           ELSE /\ exc' = BuildRunError(TAG_FAILED, <<"Failed to tag image as">> \o Target(user))
                /\ pc' = Landing(BuildRunError(TAG_FAILED, <<"Failed to tag image as">> \o Target(user)))
                /\ UNCHANGED stdout
    /\ UNCHANGED <<options, wait, containers, buildVars, loopVars, run_success, started>>

\* what a push can do: stream status events to the end, raise
\* docker.errors.APIError, or raise an exception of another class (a
\* connection error of the HTTP client)
PushResults == {"ok", "api_error", "other_error"}

\* line 132: the except clause
Caught(result) == result = "api_error"

\* what leaves the try statement of lines 130-133
PushException(result, u) ==
    IF Caught(result)
    THEN BuildRunError(PUSH_FAILED, <<"Failed to push">> \o Target(u))
    ELSE OtherError("push")

\* lines 130-135
PushImage ==
    /\ pc = "push"
    /\ \E result \in PushResults :
        /\ ops' = Append(ops, Op("push", 0, Target(user), result = "ok", 0))
        /\ IF result \in {"api_error", "other_error"}
           THEN /\ exc' = PushException(result, user)
                /\ pc' = Landing(PushException(result, user))
                /\ UNCHANGED stdout
           ELSE /\ stdout' = IF verbose >= 1
                             THEN Append(stdout, Line("Pushed", 0, Target(user)))
                             ELSE stdout
                /\ pc' = "exit"
                /\ UNCHANGED exc
    /\ UNCHANGED <<options, wait, containers, buildVars, loopVars, run_success, started>>

\* ------------------------------------------------------- errors, top level
\* the request the code is about to send, "" if none
NextRequest ==
    CASE pc = "start" /\ build -> "build"
      [] pc = "run_step" /\ run -> "list"
      [] pc = "stop_check" /\ IsRunning(container) -> "stop"
      [] pc = "while" -> "list"
      [] pc = "rename" -> "rename"
      [] pc = "run_call" -> "run"
      [] pc = "poll" /\ WindowOpen(wait) -> "list"
      [] pc = "push_step" /\ push -> "tag"
      [] OTHER -> ""

\* the daemon answers a request with an error; none of lines 46, 74, 88, 91,
\* 97, 102, 113, 125 is inside a try statement
DaemonRaises ==
    /\ NextRequest # ""
    /\ ops' = Append(ops, Op(NextRequest, 0, <<>>, FALSE, 0))
    /\ exc' = APIError(NextRequest)
    /\ pc' = Landing(APIError(NextRequest))
    /\ UNCHANGED <<options, wait, containers, buildVars, loopVars, run_success, started,
                   stdout>>

\* lines 159-160: main prints the BuildRunError and ends
MainExcept ==
    /\ pc = "caught"
    /\ stdout' = Append(stdout, Line("BuildRunError", exc.code, exc.message))
    /\ pc' = "exit"
    /\ UNCHANGED <<options, wait, containers, buildVars, loopVars, run_success, started,
                   exc, ops>>

Next ==
    \/ BuildRequest \/ SkipBuild \/ BuildReadEvent \/ BuildLogEnd \/ BuildFailed \/ BuildOk
    \/ SkipRun \/ ListContainers \/ ContainersExist \/ NoExistingContainers
    \/ ForNext \/ ForEnd \/ StopRunning \/ SkipStop \/ FirstCandidate
    \/ WhileTaken \/ WhileFree \/ RenameContainer \/ RunContainer
    \/ ContainerExits \/ PollRunning \/ PollDied \/ PollWindowOver \/ PollEnd
    \/ SkipPush \/ TagImage \/ PushImage
    \/ DaemonRaises \/ MainExcept

Spec == Init /\ [][Next]_vars

\* the steps of lines 74-97; the errors of the daemon are steps of the
\* process's environment
Reconcile ==
    \/ ListContainers \/ ContainersExist \/ NoExistingContainers
    \/ ForNext \/ ForEnd \/ StopRunning \/ SkipStop \/ FirstCandidate
    \/ WhileTaken \/ WhileFree \/ RenameContainer

\* main is single-threaded and every call of lines 74-97 returns or raises,
\* so once in these lines the process takes its next step
FairSpec == Spec /\ WF_vars(Reconcile)

\* ------------------------------------------------------------ observations
Issued(kind) == {i \in 1..Len(ops) : ops[i].op = kind}
Printed(tag) == \E i \in 1..Len(stdout) : stdout[i].tag = tag
Canonical == Name(user)

\* the build request was accepted and the build step is over
BuildStepOver ==
    /\ \E i \in Issued("build") : ops[i].ok
    /\ pc \notin {"build_read", "build_check"}
BuildFailureRaised == exc.kind = "BuildRunError" /\ exc.code = BUILD_FAILED

\* the container was started
Started == \E i \in Issued("run") : ops[i].ok

\* the liveness checks: the listings sent after the run request
LivenessChecks ==
    IF Issued("run") = {} THEN <<>>
    ELSE LET r == CHOOSE i \in Issued("run") : TRUE
             IsList(o) == o.op = "list"
         IN SelectSeq(SubSeq(ops, r + 1, Len(ops)), IsList)

\* the launcher is over and the invocation went on to the push step
LauncherOver == Started /\ pc \in {"push_step", "push", "exit", "caught"}

\* ------------------------------------------------------------------ claims
\* C1: when reconciliation has finished and the run request is not yet
\* issued, no container has the canonical name and the name given to each
\* renamed container differs from the name of every other container; the
\* name passed to a rename request is held by no container.
C1_CanonicalFreeNamesUnique ==
    /\ pc = "rename" => ~NameTaken(rename)
    /\ pc = "run_call" =>
        /\ ~NameTaken(Canonical)
        /\ \A i \in Issued("rename") :
            /\ ops[i].ok
            /\ ops[i].id \in Ids
            /\ containers[ops[i].id].Name = ops[i].name
            /\ \A id \in Ids \ {ops[i].id} : containers[id].Name # ops[i].name

\* two containers matched, were renamed, and the second took a suffix
C1_Witness ==
    /\ pc = "run_call"
    /\ Cardinality(Issued("rename")) = 2
    /\ \E i \in Issued("rename") :
        \E c \in Timestamps : ops[i].name = RenameCandidateN(Canonical, c, 1)

\* C2 (as stated): the name passed to rename is <name>_<timestamp> when no
\* container has that name, and otherwise <name>_<timestamp>_<n> for the
\* smallest n >= 1 such that no container has that name.
SmallestFree(name, created) ==
    CHOOSE n \in 1..(Cardinality(Ids) + 1) :
        /\ ~NameTaken(RenameCandidateN(name, created, n))
        /\ \A m \in 1..(n - 1) : NameTaken(RenameCandidateN(name, created, m))
ExpectedRename(name, created) ==
    IF ~NameTaken(RenameCandidate(name, created))
    THEN RenameCandidate(name, created)
    ELSE RenameCandidateN(name, created, SmallestFree(name, created))
C2_SmallestFreeSuffix ==
    pc = "rename" => rename = ExpectedRename(Canonical, container.Created)

\* C3: with build enabled, if no event of the build log stream has a
\* 'stream' text with the success marker, the build step raises
\* BuildRunError 101, also when the stream has no explicit error event.
C3_NoMarkerFails ==
    (BuildStepOver /\ ~log.marker) =>
        /\ BuildFailureRaised
        /\ pc \in {"caught", "exit"}
        /\ ops[Len(ops)].op = "build"

\* the log was read to its end, had neither marker nor error event, and the
\* error was raised
C3_Witness ==
    /\ BuildStepOver
    /\ verbose >= 1
    /\ ~log.marker /\ ~log.error
    /\ BuildFailureRaised

\* C4 (as stated): for every verbosity level, if some event of the build log
\* stream has the success marker, BuildRunError 101 is not raised.
C4_MarkerSucceeds ==
    (BuildStepOver /\ log.marker) => ~BuildFailureRaised

\* C5: in the liveness poll, if the container is listed at every check the
\* outcome is 'success'; if at some check it is not listed the outcome is
\* 'died', that check is the last one and 'success' is never reported.
C5_PollOutcome ==
    LET chk == LivenessChecks
        died == \E i \in 1..Len(chk) : chk[i].ok /\ chk[i].n = 0
        over == Len(chk) >= 1 /\ pc \notin {"poll", "poll_end"}
    IN /\ \A i \in 1..Len(chk) : (chk[i].ok /\ chk[i].n = 0) => i = Len(chk)
       /\ died => (Printed("Died") /\ ~Printed("Success"))
       /\ (over /\ \A i \in 1..Len(chk) : chk[i].ok /\ chk[i].n > 0) =>
              (Printed("Success") /\ ~Printed("Died"))
       /\ Printed("Died") => died

\* the container was listed at one check, not at the next, and the
\* invocation ended
C5_Witness ==
    /\ Len(LivenessChecks) >= 2
    /\ Printed("Died")
    /\ pc = "exit"

\* C6 (as stated): whenever run is enabled, the start succeeds and the wait
\* window is greater than 0, at least one liveness check is issued after the
\* start, for every verbosity level.
C6_AlwaysPolls ==
    (LauncherOver /\ wait0 > 0) => Len(LivenessChecks) >= 1

\* C7: if the tag operation returns false, BuildRunError 102 naming
\* <repo>/<user>:<env> is raised and no push request is issued; a push
\* request is issued only after a tag operation that returned true.
C7_TagFailurePreventsPush ==
    /\ \A i \in Issued("tag") :
        (ops[i].ok /\ ops[i].n = 0) =>
            /\ i = Len(ops)
            /\ exc = BuildRunError(TAG_FAILED, <<"Failed to tag image as">> \o Target(user))
            /\ pc \in {"caught", "exit"}
    /\ \A i \in Issued("push") :
        /\ i > 1
        /\ ops[i - 1].op = "tag" /\ ops[i - 1].ok /\ ops[i - 1].n = 1

\* the tag operation returned false and main printed the error
C7_Witness ==
    /\ \E i \in Issued("tag") : ops[i].ok /\ ops[i].n = 0
    /\ pc = "exit"
    /\ Printed("BuildRunError")

\* C8 (as stated): any failure during push ends the invocation with
\* BuildRunError 103 carrying <repo>/<user>:<env>, never with a raw
\* lower-level exception and never with 'Pushed image'.
C8_PushFailureWrapped ==
    \A i \in Issued("push") :
        ~ops[i].ok =>
            /\ exc = BuildRunError(PUSH_FAILED, <<"Failed to push">> \o Target(user))
            /\ pc \in {"caught", "exit"}
            /\ ~Printed("Pushed")

\* C9: reconciliation is idempotent: stop and rename are issued only for
\* containers of the listing, and a second listing right after the first
\* reconciliation finds no container, so a second pass issues no stop and no
\* rename and changes nothing.
C9_SecondPassFindsNone ==
    /\ \A i \in Issued("stop") \cup Issued("rename") : ops[i].ok => ops[i].id \in listed
    /\ pc = "run_call" => ListAll(NameFilter(Canonical)) = {}

\* reconciliation stopped and renamed a container
C9_Witness ==
    /\ pc = "run_call"
    /\ Issued("stop") # {}
    /\ Issued("rename") # {}

\* C10: the run request is issued only after every container of the initial
\* listing has been renamed; each is renamed exactly once, none is deleted,
\* and each exists under its historical name when the run request is issued.
C10_RunAfterAllRenamed ==
    /\ listed \subseteq Ids
    /\ \A id \in listed :
        Cardinality({i \in Issued("rename") : ops[i].id = id}) <= 1
    /\ \A r \in Issued("run") :
        \A id \in listed :
            \E i \in Issued("rename") :
                /\ i < r
                /\ ops[i].id = id /\ ops[i].ok
                /\ containers[id].Name = ops[i].name
                /\ ops[i].name # Canonical

\* the new container was started after two containers were renamed
C10_Witness ==
    /\ Started
    /\ Cardinality(listed) = 2
    /\ pc = "exit"

\* the last request sent to the daemon, "" if none
LastOp == IF ops = <<>> THEN "" ELSE ops[Len(ops)].op
ToolErrorRaised == exc.kind = "BuildRunError"
ErrorLines == {i \in 1..Len(stdout) : stdout[i].tag = "BuildRunError"}

\* C11: an invocation ends in one of three ways: normally, with a tool error
\* 101, 102 or 103 that main catches and prints as one line carrying its
\* code and message, or with an unhandled error.  After a tool error is
\* raised no request is sent to the daemon, and an error of the daemon's
\* list, stop, rename or run operation never becomes a tool error.
C11_ThreeEndings ==
    /\ pc = "exit" =>
        \/ exc = NoException /\ ErrorLines = {}
        \/ /\ ToolErrorRaised
           /\ ErrorLines = {Len(stdout)}
           /\ stdout[Len(stdout)] = Line("BuildRunError", exc.code, exc.message)
    /\ pc = "crashed" => (exc.kind \in {"APIError", "Other"} /\ ErrorLines = {})
    /\ pc \notin {"caught", "exit"} => ~ToolErrorRaised
    /\ ToolErrorRaised =>
        /\ exc.code \in {BUILD_FAILED, TAG_FAILED, PUSH_FAILED}
        /\ exc.code = BUILD_FAILED => LastOp = "build"
        /\ exc.code = TAG_FAILED => LastOp = "tag"
        /\ exc.code = PUSH_FAILED => LastOp = "push"
    /\ \A i \in 1..Len(ops) :
        (~ops[i].ok /\ ops[i].op \in {"list", "stop", "rename", "run"}) =>
            /\ i = Len(ops)
            /\ exc.kind = "APIError"
            /\ pc = "crashed"

\* the push raised an API error and main printed BuildRunError 103
C11_Witness ==
    /\ pc = "exit"
    /\ exc.code = PUSH_FAILED
    /\ ErrorLines # {}

\* the stop and rename requests the daemon carried out for one container
StopsOf(id) == {i \in 1..Len(ops) : ops[i].op = "stop" /\ ops[i].ok /\ ops[i].id = id}
RenamesOf(id) == {i \in 1..Len(ops) : ops[i].op = "rename" /\ ops[i].ok /\ ops[i].id = id}

\* C12: in the loop over the listed containers a container is stopped
\* exactly when the state the listing gave for it is "running" in any
\* letter case, the stop comes before the rename of that container, a
\* container in another state is renamed without a stop, and no container
\* is stopped twice.
C12_StopIffRunning ==
    /\ \A i \in 1..Len(ops) :
        (ops[i].ok /\ ops[i].op \in {"stop", "rename"}) =>
            /\ ops[i].id \in listed
            \* an earlier stop or rename of the same container is a stop,
            \* and this one is then the rename
            /\ \A j \in 1..(i - 1) :
                (ops[j].ok /\ ops[j].op \in {"stop", "rename"} /\ ops[j].id = ops[i].id) =>
                    (ops[j].op = "stop" /\ ops[i].op = "rename")
    /\ (pc \in {"candidate", "while", "rename"} \/ (pc = "for" /\ container # NoContainer)) =>
        /\ StopsOf(container.Id) # {} <=> Lower(container.State) = "running"
        /\ pc = "for" => RenamesOf(container.Id) # {}

\* two containers were listed, one running and one not; both are renamed
\* and only the running one was stopped
C12_Witness ==
    /\ pc = "run_call"
    /\ \E a \in listed : \E b \in listed :
        /\ StopsOf(a) # {} /\ RenamesOf(a) # {}
        /\ StopsOf(b) = {} /\ RenamesOf(b) # {}

\* the step a request belongs to: 1 build, 2 reconcile, 3 run, 4 liveness
\* checks, 5 tag, 6 push; a listing belongs to the liveness checks when the
\* run request came before it
Step(i) ==
    CASE ops[i].op = "build" -> 1
      [] ops[i].op \in {"stop", "rename"} -> 2
      [] ops[i].op = "list" -> IF \E r \in 1..(i - 1) : ops[r].op = "run" THEN 4 ELSE 2
      [] ops[i].op = "run" -> 3
      [] ops[i].op = "tag" -> 5
      [] ops[i].op = "push" -> 6
      [] OTHER -> 0
CompletedNormally == pc = "exit" /\ exc = NoException
\* some request of one of these kinds was sent
Sent(kinds) == \E i \in 1..Len(ops) : ops[i].op \in kinds

\* C13: the requests of one invocation come in the order build, reconcile
\* (list, stop, rename), run, liveness checks, tag, push; a step whose flag
\* is off sends none of its requests (build off: no build and no build
\* failure; run off: no list, stop, rename, run; push off: no tag, no
\* push), and the steps whose flags are on are still carried out.
C13_FixedOrder ==
    /\ \A i \in 1..Len(ops) :
        LET here == Step(i)
        IN  /\ here # 0
            /\ i > 1 =>
                LET before == Step(i - 1)
                IN  /\ before <= here
                    /\ here \in {1, 3, 5, 6} => before < here
    /\ ~build => (~Sent({"build"}) /\ ~BuildFailureRaised)
    /\ ~run => ~Sent({"list", "stop", "rename", "run"})
    /\ ~push => ~Sent({"tag", "push"})
    /\ CompletedNormally =>
        /\ build => Sent({"build"})
        /\ run => (Sent({"list"}) /\ Started)
        /\ push => (Sent({"tag"}) /\ Sent({"push"}))

\* all three flags on: every step sent a request and the invocation completed
C13_Witness ==
    /\ CompletedNormally
    /\ \A k \in 1..6 : \E i \in 1..Len(ops) : Step(i) = k
    /\ Issued("stop") # {} /\ Issued("rename") # {}

\* the poll of lines 110-122 is over
PollOver == PollsLiveness(verbose) /\ Started /\ pc \in {"push_step", "push", "exit", "caught"}
Outcomes == {i \in 1..Len(stdout) : stdout[i].tag \in {"Success", "Died"}}

\* C14: the liveness poll is a bounded countdown: for a wait window of w
\* seconds it sends at most w listings, whatever the daemon answers, and it
\* reports exactly one outcome, success or died.
C14_AtMostWaitChecks ==
    /\ Len(LivenessChecks) <= wait0
    /\ Cardinality(Outcomes) <= 1
    /\ PollOver => Cardinality(Outcomes) = 1

\* the poll ended died and the invocation has left the run step
DiedOver == Printed("Died") /\ pc \in {"push_step", "push", "exit", "caught", "crashed"}

\* C15: a poll that ended died is not a tool error: no BuildRunError is
\* raised for it, and with push on the image is tagged and pushed after it
\* as after a poll that ended success.
C15_DiedIsNotAnError ==
    Printed("Died") =>
        /\ pc \in {"poll_end", "push_step"} => exc = NoException
        /\ ToolErrorRaised =>
            /\ exc.code \in {TAG_FAILED, PUSH_FAILED}
            /\ LastOp \in {"tag", "push"}
        /\ pc = "crashed" => LastOp \in {"tag", "push"}
        /\ (DiedOver /\ push /\ pc # "push_step") => Issued("tag") # {}
        /\ (DiedOver /\ push /\ CompletedNormally) => Issued("push") # {}
        /\ (DiedOver /\ ~push) => (pc \in {"push_step", "exit"} /\ exc = NoException)
        /\ \A i \in Issued("tag") \cup Issued("push") : \A j \in Issued("list") : j < i

\* the container died during the poll, then the image was tagged and pushed
C15_Witness ==
    /\ Printed("Died")
    /\ CompletedNormally
    /\ \E i \in Issued("push") : ops[i].ok

\* the control points of lines 74-97, from the listing to the end of the loop
Reconciling ==
    \/ pc = "run_step" /\ run
    \/ pc \in {"listed", "for", "stop_check", "candidate", "while", "rename"}

\* C16: reconciliation changes only containers whose name is exactly the
\* canonical name: in every step of it the set of container ids stays the
\* same, a container with another name keeps its name and state, and a
\* container with the canonical name changes only from running to stopped
\* and in its name.
C16_OnlyCanonicalChanged ==
    [][Reconciling =>
        /\ DOMAIN containers' = DOMAIN containers
        /\ \A id \in Ids :
            containers'[id] # containers[id] =>
                /\ containers[id].Name = Canonical
                /\ containers'[id].Created = containers[id].Created
                /\ \/ containers'[id].State = containers[id].State
                   \/ containers[id].State = "running" /\ containers'[id].State = "exited"]_vars

\* the suffix the search of lines 90-93 tried last, 0 for the first candidate
SuffixTried == count - 1

\* C17: the search for a free rename target ends for every set of existing
\* containers: the suffix it tries never exceeds the number of containers
\* that exist, and reconciliation, once begun, reaches the run request
\* unless a request to the daemon fails.
C17_RenameSearchTerminates ==
    /\ [](pc \in {"while", "rename"} =>
            (count >= 1 /\ SuffixTried < Cardinality(Ids) /\ Len(all_containers) < Cardinality(Ids)))
    /\ (Reconciling ~> (pc = "run_call" \/ pc = "crashed"))

\* the first candidate was taken, the search tried suffix 1 and found it free
C17_Witness ==
    /\ pc = "rename"
    /\ SuffixTried = 1
    /\ ~CandidateTaken(rename)

====
